---- MODULE Spec2Model ----
(***************************************************************************)
(* The filesystem helpers of osquery/filesystem/filesystem.cpp: path       *)
(* checks, text file write/read, directory listing and the Tomcat user     *)
(* configuration parser, over a small POSIX filesystem and descriptor      *)
(* table.  Paths are sequences of characters, file contents are sequences  *)
(* of XML tokens.                                                          *)
(***************************************************************************)
EXTENDS Integers, Sequences, FiniteSets, TLC

VARIABLES
  fs,     \* the filesystem: node -> [kind, locked, mode, owned, data]
  fds,    \* the process's open file descriptors
  call,   \* the last call: [op, path, content, perms, prior]
  ret,    \* how it ended: a returned Status or a thrown exception
  out,    \* the caller's output argument after the call
  ev,     \* what the call did: descriptors and buffers acquired/released, probes
  log     \* node -> the writeTextFile calls made on it since it was created

vars == <<fs, fds, call, ret, out, ev, log>>

----------------------------------------------------------------------------
(* Bounds *)

MaxPathLen == 3      \* longest path string passed to an operation
MaxContentLen == 1   \* longest content passed to writeTextFile
MaxFileLen == 2      \* file size limit of the filesystem (RLIMIT_FSIZE / quota)
MaxFd == 4           \* size of the descriptor table (RLIMIT_NOFILE)
MaxWrites == 2       \* writeTextFile calls per run
MaxDocLen == 5       \* longest document passed to parseTomcatUserConfig

----------------------------------------------------------------------------
(* Strings and paths *)

SeqsUpTo(S, n) == UNION {[1..k -> S] : k \in 0..n}

Last(s) == s[Len(s)]

PathChars == {"/", "a"}

Paths == SeqsUpTo(PathChars, MaxPathLen)

\* length of the longest prefix of p holding no separator
RECURSIVE NameLen(_)
NameLen(p) ==
  IF p = <<>> \/ Head(p) = "/" THEN 0 ELSE 1 + NameLen(Tail(p))

\* the names of p between separators (how the kernel walks a path)
RECURSIVE Comps(_)
Comps(p) ==
  IF p = <<>> THEN <<>>
  ELSE IF Head(p) = "/" THEN Comps(Tail(p))
  ELSE LET n == NameLen(p)
       IN <<SubSeq(p, 1, n)>> \o Comps(SubSeq(p, n + 1, Len(p)))

Nodes == {Comps(p) : p \in Paths}

Root == <<>>

Parent(n) == SubSeq(n, 1, Len(n) - 1)

----------------------------------------------------------------------------
(* boost::filesystem::path, on character sequences.  Positions are the     *)
(* 0-based positions of the library; npos is -1.                           *)

npos == -1

IsSep(s, i) == s[i + 1] = "/"

\* std::string::find_last_of(separators, e): the last separator at or before e
find_last_of(s, e) ==
  LET hits == {i \in 0..e : i < Len(s) /\ IsSep(s, i)}
  IN IF hits = {} THEN npos ELSE CHOOSE i \in hits : \A j \in hits : j <= i

\* std::string::find_first_of(separators, b): the first separator at or after b
find_first_of(s, b) ==
  LET hits == {i \in b..(Len(s) - 1) : IsSep(s, i)}
  IN IF hits = {} THEN npos ELSE CHOOSE i \in hits : \A j \in hits : i <= j

filename_pos(s, end_pos) ==
  IF end_pos = 2 /\ IsSep(s, 0) /\ IsSep(s, 1) THEN 0
  ELSE IF end_pos > 0 /\ IsSep(s, end_pos - 1) THEN end_pos - 1
  ELSE LET pos == find_last_of(s, end_pos - 1)
       IN IF pos = npos \/ (pos = 1 /\ IsSep(s, 0)) THEN 0 ELSE pos + 1

root_directory_start(s, size) ==
  IF size = 2 /\ IsSep(s, 0) /\ IsSep(s, 1) THEN npos
  ELSE IF size > 3 /\ IsSep(s, 0) /\ IsSep(s, 1) /\ ~IsSep(s, 2)
    THEN LET pos == find_first_of(s, 2)
         IN IF pos # npos /\ pos < size THEN pos ELSE npos
  ELSE IF size > 0 /\ IsSep(s, 0) THEN 0
  ELSE npos

\* the loop of m_parent_path_end: step back over separators before the filename
RECURSIVE SkipSeps(_, _, _)
SkipSeps(s, end_pos, root_dir_pos) ==
  IF end_pos > 0 /\ (end_pos - 1) # root_dir_pos /\ IsSep(s, end_pos - 1)
  THEN SkipSeps(s, end_pos - 1, root_dir_pos)
  ELSE end_pos

parent_path_end(s) ==
  LET fpos == filename_pos(s, Len(s))
      filename_was_separator == Len(s) > 0 /\ IsSep(s, fpos)
      root_dir_pos == root_directory_start(s, fpos)
      end_pos == SkipSeps(s, fpos, root_dir_pos)
  IN IF end_pos = 1 /\ root_dir_pos = 0 /\ filename_was_separator
     THEN npos ELSE end_pos

\* path::parent_path().string()
parent_path(s) ==
  LET e == parent_path_end(s)
  IN IF e = npos THEN <<>> ELSE SubSeq(s, 1, e)

\* directory_entry::path(): the iterated directory's path / the entry's name
PathJoin(p, name) ==
  IF p # <<>> /\ Last(p) = "/" THEN p \o name ELSE p \o <<"/">> \o name

----------------------------------------------------------------------------
(* The filesystem.  Every node is absent ("none"), a regular file or a     *)
(* directory.  A locked directory grants the caller neither search nor     *)
(* read permission (mode 000 or another user's 0700).  mode is the access  *)
(* the caller has to a file, owned says whether the caller may chmod it.   *)
(* The working directory is the root.                                      *)

Modes == SUBSET {"r", "w"}

NoNode == [kind |-> "none", locked |-> FALSE, mode |-> {}, owned |-> FALSE, data |-> <<>>]

Dir(lk) == [kind |-> "dir", locked |-> lk, mode |-> {"r", "w"}, owned |-> TRUE, data |-> <<>>]

File(m, o, d) == [kind |-> "file", locked |-> FALSE, mode |-> m, owned |-> o, data |-> d]

\* walking from the root to node n: "eacces" when a directory on the way may
\* not be searched, "noent" when a name is missing or a non-directory is in
\* the way (ENOENT, ENOTDIR), else the node's kind
RECURSIVE Reach(_, _)
Reach(f, n) ==
  IF n = Root THEN "dir"
  ELSE LET par == Reach(f, Parent(n))
       IN IF par = "eacces" THEN "eacces"
          ELSE IF par # "dir" THEN "noent"
          ELSE IF f[Parent(n)].locked THEN "eacces"
          ELSE IF n \notin DOMAIN f \/ f[n].kind = "none" THEN "noent"
          ELSE f[n].kind

\* stat(2) of path p; "" is ENOENT, a trailing separator needs a directory
Stat(f, p) ==
  IF p = <<>> THEN "noent"
  ELSE LET r == Reach(f, Comps(p))
       IN IF r = "file" /\ Last(p) = "/" THEN "noent" ELSE r

\* what is at p, whatever the caller's permissions on the way
RECURSIVE TrueKind(_, _)
TrueKind(f, n) ==
  IF n = Root THEN "dir"
  ELSE IF TrueKind(f, Parent(n)) # "dir" THEN "none"
  ELSE f[n].kind

KindAt(f, p) ==
  IF p = <<>> THEN "none"
  ELSE LET k == TrueKind(f, Comps(p))
       IN IF k = "file" /\ Last(p) = "/" THEN "none" ELSE k

Children(f, n) ==
  {c \in DOMAIN f : Len(c) = Len(n) + 1 /\ Parent(c) = n /\ f[c].kind # "none"}

WellFormed(f) ==
  /\ f[Root].kind = "dir"
  /\ \A n \in DOMAIN f : (n # Root /\ f[n].kind # "none") => f[Parent(n)].kind = "dir"

----------------------------------------------------------------------------
(* Status, exceptions and what a call did *)

Status(c, m) == [kind |-> "return", code |-> c, msg |-> m]

\* the call ended by an exception of class w leaving the function
Thrown(w) == [kind |-> "throw", code |-> -1, msg |-> w]

ok(s) == s.kind = "return" /\ s.code = 0

\* fd: what open(2) returned (-1 too when it was not called); chmod: how the
\* mode change ended; bytes: what write(2) returned; acquired/released count
\* descriptors, bufNew/bufDel the read buffer, probes the access(2) calls,
\* opens the attempts to open the file, parsed whether read_xml was called
Ev0 ==
  [fd |-> -1, chmod |-> "none", bytes |-> -1, acquired |-> 0, released |-> 0,
   bufNew |-> 0, bufDel |-> 0, probes |-> 0, opens |-> 0, parsed |-> FALSE]

----------------------------------------------------------------------------
(* boost::filesystem status queries: they throw filesystem_error when      *)
(* stat fails with anything but ENOENT or ENOTDIR                          *)

StatusThrows(f, p) == Stat(f, p) = "eacces"

exists(f, p) == Stat(f, p) \in {"file", "dir"}

is_directory(f, p) == Stat(f, p) = "dir"

----------------------------------------------------------------------------
(* PathChecker *)

pathExists(f, p) ==
  IF Len(p) = 0 THEN Status(1, "-1")
  ELSE IF StatusThrows(f, p) THEN Thrown("filesystem_error")
  ELSE IF ~exists(f, p) THEN Status(1, "0")
  ELSE Status(0, "1")

\* access(2) with W_OK or R_OK on a path that stat could reach
access(f, p, bit) ==
  LET n == Comps(p)
  IN IF f[n].kind = "dir" THEN ~f[n].locked ELSE bit \in f[n].mode

isWritable(f, p) ==
  LET path_exists == pathExists(f, p)
  IN IF ~ok(path_exists) THEN [ret |-> path_exists, ev |-> Ev0]
     ELSE [ret |-> IF access(f, p, "w") THEN Status(0, "OK")
                   ELSE Status(1, "Path is not writable."),
           ev |-> [Ev0 EXCEPT !.probes = 1]]

isReadable(f, p) ==
  LET path_exists == pathExists(f, p)
  IN IF ~ok(path_exists) THEN [ret |-> path_exists, ev |-> Ev0]
     ELSE [ret |-> IF access(f, p, "r") THEN Status(0, "OK")
                   ELSE Status(1, "Path is not readable."),
           ev |-> [Ev0 EXCEPT !.probes = 1]]

isDirectory(f, p) ==
  IF StatusThrows(f, p) THEN Thrown("filesystem_error")
  ELSE IF is_directory(f, p) THEN Status(0, "OK")
  ELSE Status(1, "Path is not a directory")

\* dirpath is the caller's string going in; the result holds it coming out
getDirectory(f, p, dirpath) ==
  LET d == isDirectory(f, p)
  IN IF d.kind = "throw" THEN [ret |-> d, dirpath |-> dirpath]
     ELSE IF ~ok(d) THEN [ret |-> Status(0, "OK"), dirpath |-> parent_path(p)]
     ELSE [ret |-> Status(1, "Path is a directory"), dirpath |-> p]

----------------------------------------------------------------------------
(* DirectoryLister *)

\* the orders in which a directory iteration may yield the set S
Orders(S) ==
  {o \in [1..Cardinality(S) -> S] : \A i, j \in 1..Cardinality(S) : o[i] = o[j] => i = j}

\* PushEntries pushing begin_iter->path().filename(): the names, not the paths
RECURSIVE PushEntries_Filename(_, _, _)
PushEntries_Filename(p, entries, results) ==
  IF entries = <<>> THEN results
  ELSE PushEntries_Filename(p, Tail(entries), Append(results, Last(Head(entries))))

\* the loop of listFilesInDirectory over the entries in iteration order
RECURSIVE PushEntries(_, _, _)
PushEntries(p, entries, results) ==
  IF entries = <<>> THEN results
  ELSE PushEntries(p, Tail(entries), Append(results, PathJoin(p, Last(Head(entries)))))

\* order: the order the OS yields the entries of the directory in
listFilesInDirectory(f, p, results, order) ==
  IF StatusThrows(f, p)
    THEN [ret |-> Status(1, "filesystem_error"), results |-> results]
  ELSE IF ~exists(f, p)
    THEN [ret |-> Status(1, "Directory not found"), results |-> results]
  ELSE IF ~is_directory(f, p)
    THEN [ret |-> Status(1, "Supplied path is not a directory"), results |-> results]
  ELSE IF f[Comps(p)].locked
    THEN [ret |-> Status(1, "filesystem_error"), results |-> results]
  ELSE [ret |-> Status(0, "OK"), results |-> PushEntries(p, order, results)]

----------------------------------------------------------------------------
(* POSIX calls used by FileIO *)

FreeFds(fdt) == (0..(MaxFd - 1)) \ fdt

\* open(2) hands out the lowest free descriptor
LowestFree(fdt) == CHOOSE d \in FreeFds(fdt) : \A e \in FreeFds(fdt) : d <= e

\* open(path, O_CREAT | O_APPEND | O_WRONLY, perms): the descriptor (or -1)
\* and the filesystem afterwards
open_append(f, fdt, p, perms) ==
  LET n == Comps(p)
      st == Stat(f, p)
      failed == [fd |-> -1, fs |-> f]
  IN IF FreeFds(fdt) = {} \/ p = <<>> THEN failed
     ELSE IF st \in {"eacces", "dir"} THEN failed
     ELSE IF st = "file"
       THEN IF "w" \in f[n].mode THEN [fd |-> LowestFree(fdt), fs |-> f] ELSE failed
     ELSE IF Last(p) = "/" \/ Reach(f, Parent(n)) # "dir" \/ f[Parent(n)].locked
       THEN failed
     ELSE [fd |-> LowestFree(fdt), fs |-> [f EXCEPT ![n] = File(perms, TRUE, <<>>)]]

\* chmod(path, perms) on a file open_append has just opened: only the owner may
chmod_ok(f, p) == f[Comps(p)].owned

\* write(2) of content c on an O_APPEND descriptor: how many bytes fit under
\* the file size limit
write_count(f, p, c) ==
  LET room == MaxFileLen - Len(f[Comps(p)].data)
  IN IF Len(c) <= room THEN Len(c) ELSE room

----------------------------------------------------------------------------
(* FileIO *)

\* force_permissions is accepted and never read
writeTextFile(f, fdt, p, c, perms, force_permissions) ==
  LET o == open_append(f, fdt, p, perms)
      output_fd == o.fd
      n == Comps(p)
      held == IF output_fd >= 0 THEN 1 ELSE 0
      e1 == [Ev0 EXCEPT !.fd = output_fd, !.opens = 1, !.acquired = held]
  IN IF output_fd <= 0
       THEN [ret |-> Status(1, "Could not create file"), fs |-> o.fs,
             fds |-> IF output_fd = 0 THEN fdt \cup {0} ELSE fdt, ev |-> e1]
     ELSE IF ~chmod_ok(o.fs, p)
       THEN [ret |-> Status(1, "Failed to change permissions"), fs |-> o.fs,
             fds |-> fdt \cup {output_fd}, ev |-> [e1 EXCEPT !.chmod = "failed"]]
     ELSE LET f2 == [o.fs EXCEPT ![n].mode = perms]
              bytes == write_count(f2, p, c)
              f3 == [f2 EXCEPT ![n].data = @ \o SubSeq(c, 1, bytes)]
              e3 == [e1 EXCEPT !.chmod = "ok", !.bytes = bytes, !.released = 1]
          IN IF bytes # Len(c)
               THEN [ret |-> Status(1, "Failed to write contents"), fs |-> f3,
                     fds |-> fdt, ev |-> e3]
             ELSE [ret |-> Status(0, "OK"), fs |-> f3, fds |-> fdt, ev |-> e3]

\* std::ifstream file_h(path): a regular file the caller may read or a
\* directory the caller may read opens, given a free descriptor
ifstream_opens(f, fdt, p) ==
  LET n == Comps(p)
  IN /\ FreeFds(fdt) # {}
     /\ \/ f[n].kind = "file" /\ "r" \in f[n].mode
        \/ f[n].kind = "dir" /\ ~f[n].locked

\* readFile clearing content before it checks the path
readFile_ClearsFirst(f, fdt, p, content, tell) ==
  LET path_exists == pathExists(f, p)
      n == Comps(p)
      e3 == [Ev0 EXCEPT !.opens = 1, !.acquired = 1, !.released = 1,
                        !.bufNew = 1, !.bufDel = 1]
  IN IF ~ok(path_exists) THEN [ret |-> path_exists, content |-> <<>>, ev |-> Ev0]
     ELSE IF ~(FreeFds(fdt) # {} /\ f[n].kind = "file" /\ "r" \in f[n].mode)
       THEN [ret |-> Status(1, "Could not open file for reading"),
             content |-> <<>>, ev |-> [Ev0 EXCEPT !.opens = 1]]
     ELSE [ret |-> Status(0, "OK"), content |-> f[n].data, ev |-> e3]

\* content is the caller's string going in; tell is what int len holds after
\* seeking to the end of a directory stream, which depends on the filesystem
\* (-1 when the seek fails or yields LONG_MAX, else the directory's size)
readFile(f, fdt, p, content, tell) ==
  LET path_exists == pathExists(f, p)
      n == Comps(p)
      e1 == [Ev0 EXCEPT !.opens = 1]
      e2 == [e1 EXCEPT !.acquired = 1, !.released = 1]
      e3 == [e2 EXCEPT !.bufNew = 1, !.bufDel = 1]
      len == IF f[n].kind = "file" THEN Len(f[n].data) ELSE tell
  IN IF ~ok(path_exists)
       THEN [ret |-> path_exists, content |-> content, ev |-> Ev0]
     ELSE IF ~ifstream_opens(f, fdt, p)
       THEN [ret |-> Status(1, "Could not open file for reading"),
             content |-> content, ev |-> e1]
     ELSE IF len < 0
       THEN [ret |-> Thrown("bad_alloc"), content |-> content, ev |-> e2]
     ELSE IF f[n].kind # "file" /\ len > 0
       THEN [ret |-> Status(1, "Could not read file"), content |-> content, ev |-> e3]
     ELSE [ret |-> Status(0, "OK"), content |-> SubSeq(f[n].data, 1, len), ev |-> e3]

----------------------------------------------------------------------------
(* XML documents as token sequences.  A token is the open tag or the close *)
(* tag of a tomcat-users element, or a whole empty element <user .../> or  *)
(* <role/>; NoAttr is an attribute the element does not carry.             *)

NoAttr == "<none>"

OpenTok == [t |-> "open", name |-> "tomcat-users", username |-> NoAttr, password |-> NoAttr]

CloseTok == [t |-> "close", name |-> "tomcat-users", username |-> NoAttr, password |-> NoAttr]

UserTok(u, pw) == [t |-> "elem", name |-> "user", username |-> u, password |-> pw]

RoleTok == [t |-> "elem", name |-> "role", username |-> NoAttr, password |-> NoAttr]

Tokens ==
  {OpenTok, CloseTok, RoleTok, UserTok("alice", "secret1"), UserTok("bob", "secret2"),
   UserTok("alice", NoAttr), UserTok(NoAttr, "secret2")}

\* the nesting depth after each token of doc, from depth d; -1 once a close
\* tag has no open tag to match
RECURSIVE Depths(_, _)
Depths(doc, d) ==
  IF doc = <<>> THEN <<>>
  ELSE LET t == Head(doc)
           d2 == IF d < 0 THEN -1
                 ELSE IF t.t = "open" THEN d + 1
                 ELSE IF t.t = "close" THEN d - 1
                 ELSE d
       IN <<d2>> \o Depths(Tail(doc), d2)

\* the positions where a top-level element of doc starts
RootStarts(doc) ==
  LET ds == Depths(doc, 0)
  IN {i \in 1..Len(doc) : doc[i].t # "close" /\ (IF i = 1 THEN 0 ELSE ds[i - 1]) = 0}

\* pt::xml_parser::read_xml accepts at most one root element, every tag closed
xml_well_formed(doc) ==
  LET ds == Depths(doc, 0)
  IN /\ \A i \in 1..Len(doc) : ds[i] >= 0
     /\ doc # <<>> => ds[Len(doc)] = 0
     /\ Cardinality(RootStarts(doc)) <= 1

\* the parsed tree: the root element's name and, in document order, the
\* tokens that start its direct children (an empty tree has no root)
xml_root(doc) == IF doc = <<>> THEN "" ELSE doc[1].name

xml_children(doc) ==
  LET ds == Depths(doc, 0)
      at == {i \in 2..Len(doc) : doc[i].t # "close" /\ ds[i - 1] = 1}
  IN [k \in 1..Cardinality(at) |->
        doc[CHOOSE i \in at : Cardinality({j \in at : j < i}) = k - 1]]

----------------------------------------------------------------------------
(* CredentialExtractor *)

\* forUsers skipping a pair the list already holds
RECURSIVE forUsers_Dedup(_, _)
forUsers_Dedup(children, credentials) ==
  IF children = <<>> THEN [ret |-> Status(0, "OK"), credentials |-> credentials]
  ELSE LET i == Head(children)
           user == <<i.username, i.password>>
       IN IF i.name = "user"
            THEN IF i.username = NoAttr \/ i.password = NoAttr
                   THEN [ret |-> Status(1, "ptree_bad_path"), credentials |-> credentials]
                 ELSE forUsers_Dedup(Tail(children),
                        IF \E k \in 1..Len(credentials) : credentials[k] = user
                          THEN credentials ELSE Append(credentials, user))
          ELSE forUsers_Dedup(Tail(children), credentials)

\* the loop over tree.get_child("tomcat-users")
RECURSIVE forUsers(_, _)
forUsers(children, credentials) ==
  IF children = <<>> THEN [ret |-> Status(0, "OK"), credentials |-> credentials]
  ELSE LET i == Head(children)
       IN IF i.name = "user"
            THEN IF i.username = NoAttr \/ i.password = NoAttr
                   THEN [ret |-> Status(1, "ptree_bad_path"), credentials |-> credentials]
                 ELSE forUsers(Tail(children),
                               Append(credentials, <<i.username, i.password>>))
          ELSE forUsers(Tail(children), credentials)

\* credentials is the caller's vector going in
parseTomcatUserConfig(content, credentials) ==
  IF ~xml_well_formed(content)
    THEN [ret |-> Status(1, "xml_parser_error"), credentials |-> credentials]
  ELSE IF xml_root(content) # "tomcat-users"
    THEN [ret |-> Status(1, "ptree_bad_path"), credentials |-> credentials]
  ELSE forUsers(xml_children(content), credentials)

parseTomcatUserConfigFromDisk(f, fdt, p, credentials, tell) ==
  LET r == readFile(f, fdt, p, <<>>, tell)
  IN IF ok(r.ret)
       THEN LET q == parseTomcatUserConfig(r.content, credentials)
            IN [ret |-> q.ret, credentials |-> q.credentials,
                ev |-> [r.ev EXCEPT !.parsed = TRUE]]
     ELSE [ret |-> r.ret, credentials |-> credentials, ev |-> r.ev]

----------------------------------------------------------------------------
(* Inputs and initial states *)

Contents == SeqsUpTo({OpenTok, CloseTok}, MaxContentLen)

Docs == SeqsUpTo(Tokens, MaxDocLen)

\* what int len may hold after seeking to the end of a directory stream
Tells == {-1, 0, 1}

\* the filesystem's answers that matter to a read of p: only a directory's vary
TellsAt(f, p) == IF Stat(f, p) = "dir" THEN Tells ELSE {0}

TwoUsers == <<OpenTok, UserTok("alice", "secret1"), UserTok("bob", "secret2"), CloseTok>>

\* what the caller's output argument may hold before the call
PriorContent == {<<>>, <<RoleTok>>}
PriorDirpath == {<<>>, <<"a">>}
PriorResults == {<<>>, << <<"/", "/">> >>}
PriorCredentials == {<<>>, << <<"carol", "old">> >>}

NodeA == << <<"a">> >>
NodeAA == << <<"a", "a">> >>
NodeA_A == << <<"a">>, <<"a">> >>

EmptyFs == [n \in Nodes |-> IF n = Root THEN Dir(FALSE) ELSE NoNode]

OwnFiles == {File(m, TRUE, TwoUsers) : m \in Modes} \cup {File({"r", "w"}, TRUE, <<>>)}

\* /a, /a/a and /aa in every shape: absent, a file, a directory, /a locked
QueryShapes ==
  {[EmptyFs EXCEPT ![NodeA] = a, ![NodeA_A] = sub, ![NodeAA] = aa] :
     a \in {NoNode, Dir(FALSE), Dir(TRUE)} \cup OwnFiles,
     sub \in {NoNode, Dir(FALSE)} \cup OwnFiles,
     aa \in {NoNode, Dir(FALSE)} \cup OwnFiles}

QueryFixtures == {f \in QueryShapes : WellFormed(f)}

\* /a absent, a directory, a locked directory, or another user's writable file
IOFixtures ==
  {[EmptyFs EXCEPT ![NodeA] = a] :
     a \in {NoNode, Dir(FALSE), Dir(TRUE), File({"r", "w"}, FALSE, <<>>)}}

\* stdin open, or closed as in a daemon
StdFds == {{0, 1, 2}, {1, 2}}

NoCall == [op |-> "none", path |-> <<>>, content |-> <<>>, perms |-> {}, force |-> FALSE, prior |-> <<>>]

Call(o, p, pr) == [NoCall EXCEPT !.op = o, !.path = p, !.prior = pr]

\* the writeTextFile calls so far: total counts them all; path, n and contents
\* describe the current run of n consecutive calls on one path that was absent
\* and creatable before the first, each asking for read and write permission:
\* contents is what they were passed, concatenated (n = 0: no such run)
NoLog == [path |-> <<>>, n |-> 0, contents |-> <<>>, total |-> 0]

InitCommon ==
  /\ call = NoCall
  /\ ret = Status(0, "OK")
  /\ out = <<>>
  /\ ev = Ev0
  /\ log = NoLog

Init ==
  /\ fs \in QueryFixtures
  /\ fds = {0, 1, 2}
  /\ InitCommon

InitIO ==
  /\ fs \in IOFixtures
  /\ fds \in StdFds
  /\ InitCommon

InitXml ==
  /\ fs = EmptyFs
  /\ fds = {0, 1, 2}
  /\ InitCommon

----------------------------------------------------------------------------
(* The operations *)

\* the caller is between calls
Idle == call.op = "none"

\* The operations are synchronous: the caller makes a call, takes its result
\* and only then makes the next one.
Return ==
  /\ ~Idle
  /\ call' = NoCall
  /\ ret' = Status(0, "OK")
  /\ out' = <<>>
  /\ ev' = Ev0
  /\ UNCHANGED <<fs, fds, log>>

Query(o, p, pr, r, res, e) ==
  /\ call' = Call(o, p, pr)
  /\ ret' = r
  /\ out' = res
  /\ ev' = e
  /\ UNCHANGED <<fs, fds, log>>

PathExists ==
  /\ Idle
  /\ \E p \in Paths : Query("pathExists", p, <<>>, pathExists(fs, p), <<>>, Ev0)

IsReadable ==
  /\ Idle
  /\ \E p \in Paths :
       LET r == isReadable(fs, p) IN Query("isReadable", p, <<>>, r.ret, <<>>, r.ev)

IsWritable ==
  /\ Idle
  /\ \E p \in Paths :
       LET r == isWritable(fs, p) IN Query("isWritable", p, <<>>, r.ret, <<>>, r.ev)

IsDirectory ==
  /\ Idle
  /\ \E p \in Paths : Query("isDirectory", p, <<>>, isDirectory(fs, p), <<>>, Ev0)

GetDirectory ==
  /\ Idle
  /\ \E p \in Paths, dirpath \in PriorDirpath :
       LET r == getDirectory(fs, p, dirpath)
       IN Query("getDirectory", p, dirpath, r.ret, r.dirpath, Ev0)

ListFilesInDirectory ==
  /\ Idle
  /\ \E p \in Paths, results \in PriorResults :
       \E order \in Orders(Children(fs, Comps(p))) :
         LET r == listFilesInDirectory(fs, p, results, order)
         IN Query("listFilesInDirectory", p, results, r.ret, r.results, Ev0)

ReadFile ==
  /\ Idle
  /\ \E p \in Paths, content \in PriorContent : \E tell \in TellsAt(fs, p) :
       LET r == readFile(fs, fds, p, content, tell)
       IN Query("readFile", p, content, r.ret, r.content, r.ev)

ParseTomcatUserConfigFromDisk ==
  /\ Idle
  /\ \E p \in Paths, credentials \in PriorCredentials : \E tell \in TellsAt(fs, p) :
       LET r == parseTomcatUserConfigFromDisk(fs, fds, p, credentials, tell)
       IN Query("parseTomcatUserConfigFromDisk", p, credentials, r.ret, r.credentials, r.ev)

ParseTomcatUserConfig ==
  /\ Idle
  /\ \E content \in Docs, credentials \in PriorCredentials :
       LET r == parseTomcatUserConfig(content, credentials)
       IN /\ call' = [Call("parseTomcatUserConfig", <<>>, credentials) EXCEPT !.content = content]
          /\ ret' = r.ret
          /\ out' = r.credentials
          /\ ev' = [Ev0 EXCEPT !.parsed = TRUE]
          /\ UNCHANGED <<fs, fds, log>>

\* the parent directory of p exists and may be searched, and p names no directory
Creatable(f, p) ==
  /\ p # <<>>
  /\ Last(p) # "/"
  /\ Comps(p) # Root
  /\ Reach(f, Parent(Comps(p))) = "dir"
  /\ ~f[Parent(Comps(p))].locked

\* the log after writeTextFile(p, c, perms, _)
Logged(p, c, perms) ==
  IF log.n > 0 /\ log.path = p /\ perms = {"r", "w"}
    THEN [log EXCEPT !.n = @ + 1, !.contents = @ \o c, !.total = @ + 1]
  ELSE IF (log.n = 0 \/ log.path # p) /\ perms = {"r", "w"}
          /\ KindAt(fs, p) = "none" /\ Creatable(fs, p)
    THEN [path |-> p, n |-> 1, contents |-> c, total |-> log.total + 1]
  ELSE [NoLog EXCEPT !.total = log.total + 1]

WriteTextFile ==
  /\ Idle
  /\ log.total < MaxWrites
  /\ \E p \in Paths, c \in Contents, perms \in Modes, force \in BOOLEAN :
       LET r == writeTextFile(fs, fds, p, c, perms, force)
       IN /\ call' = [Call("writeTextFile", p, <<>>) EXCEPT
                        !.content = c, !.perms = perms, !.force = force]
          /\ ret' = r.ret
          /\ out' = <<>>
          /\ ev' = r.ev
          /\ fs' = r.fs
          /\ fds' = r.fds
          /\ log' = Logged(p, c, perms)

Next ==
  \/ PathExists
  \/ IsReadable
  \/ IsWritable
  \/ IsDirectory
  \/ GetDirectory
  \/ ListFilesInDirectory
  \/ ReadFile
  \/ ParseTomcatUserConfigFromDisk
  \/ Return

Spec == Init /\ [][Next]_vars

NextIO ==
  \/ WriteTextFile
  \/ ReadFile
  \/ Return

SpecIO == InitIO /\ [][NextIO]_vars

NextXml ==
  \/ ParseTomcatUserConfig
  \/ Return

SpecXml == InitXml /\ [][NextXml]_vars

----------------------------------------------------------------------------
(* Properties.  Each is about the state right after a call: call holds the *)
(* arguments, ret how the call ended, out the output argument.             *)

Range(q) == {q[i] : i \in 1..Len(q)}

Returned(c, m) == ret = Status(c, m)

\* C1: pathExists returns (1, "-1") for the empty path, (1, "0") for every
\* non-empty path that does not exist, (0, "1") for every non-empty path that
\* exists, and nothing else.
C1_PathExistsTriState ==
  call.op = "pathExists" =>
    IF call.path = <<>> THEN Returned(1, "-1")
    ELSE IF KindAt(fs, call.path) = "none" THEN Returned(1, "0")
    ELSE Returned(0, "1")

\* C2: after n >= 1 consecutive writeTextFile calls on a path that did not
\* exist before the first (and could be created: its parent directory exists
\* and is accessible, the calls ask for read and write permission, the contents
\* fit the file size limit), readFile of that path succeeds and its content is
\* the contents concatenated in call order.
C2_AppendRoundTrip ==
  ( /\ call.op = "readFile"
    /\ log.n >= 1
    /\ call.path = log.path
    /\ Len(log.contents) <= MaxFileLen )
  => Returned(0, "OK") /\ out = log.contents

\* C3: whenever parseTomcatUserConfig returns a failure, the credentials output
\* holds no credential extracted by that call: it is what the caller passed in.
C3_AllOrNothing ==
  (call.op = "parseTomcatUserConfig" /\ ~ok(ret)) => out = call.prior

\* C4: whenever writeTextFile or readFile returns, every descriptor and buffer
\* the call acquired has been released exactly once.
C4_ReleasedExactlyOnce ==
  (call.op \in {"writeTextFile", "readFile"} /\ ret.kind = "return") =>
    /\ ev.released = ev.acquired
    /\ ev.bufDel = ev.bufNew

\* C5: every call of every operation ends by returning a Status, never by an
\* exception leaving the function.
C5_NoFaultEscapes == ~Idle => ret.kind = "return"

\* C6: getDirectory returns (0, "OK") with dirpath set to the parent path when
\* path is no directory, and (1, "Path is a directory") with dirpath set to
\* path when it is one, whatever dirpath held before.
C6_GetDirectoryAssigns ==
  call.op = "getDirectory" =>
    IF KindAt(fs, call.path) = "dir"
      THEN Returned(1, "Path is a directory") /\ out = call.path
    ELSE Returned(0, "OK") /\ out = parent_path(call.path)

\* a status query on p, or opening the directory p, fails with an OS error
OsError(f, p) ==
  \/ Stat(f, p) = "eacces"
  \/ Stat(f, p) = "dir" /\ f[Comps(p)].locked

\* the full paths of the direct children of directory p
EntryPaths(f, p) == {PathJoin(p, Last(c)) : c \in Children(f, Comps(p))}

\* C7 as stated: absent an OS error, listFilesInDirectory fails with
\* "Directory not found" for a nonexistent path and with "Supplied path is not
\* a directory" for a non-directory, and for a directory it succeeds with
\* results, as a set, exactly the paths of the direct children, whatever
\* results held before the call.
C7_ResultsExactlyChildren ==
  (call.op = "listFilesInDirectory" /\ ~OsError(fs, call.path)) =>
    IF KindAt(fs, call.path) = "none" THEN Returned(1, "Directory not found")
    ELSE IF KindAt(fs, call.path) = "file"
      THEN Returned(1, "Supplied path is not a directory")
    ELSE Returned(0, "OK") /\ Range(out) = EntryPaths(fs, call.path)

\* C7 amended: on an OS error listFilesInDirectory fails with the error's
\* description; otherwise it fails with "Directory not found" for a nonexistent
\* path and with "Supplied path is not a directory" for a non-directory, and
\* for a directory it succeeds with results being what the caller passed in
\* followed by the path of every direct child, each once and none else.  Every
\* failure leaves results as passed in.
C7_ResultsAppendChildren ==
  call.op = "listFilesInDirectory" =>
    LET added == SubSeq(out, Len(call.prior) + 1, Len(out))
    IN IF OsError(fs, call.path)
         THEN Returned(1, "filesystem_error") /\ out = call.prior
       ELSE IF KindAt(fs, call.path) = "none"
         THEN Returned(1, "Directory not found") /\ out = call.prior
       ELSE IF KindAt(fs, call.path) = "file"
         THEN Returned(1, "Supplied path is not a directory") /\ out = call.prior
       ELSE /\ Returned(0, "OK")
            /\ Len(out) >= Len(call.prior)
            /\ SubSeq(out, 1, Len(call.prior)) = call.prior
            /\ Range(added) = EntryPaths(fs, call.path)
            /\ Len(added) = Cardinality(EntryPaths(fs, call.path))

\* a directory with two children and a grandchild is listed into a list that
\* was not empty
C7_Witness ==
  /\ call.op = "listFilesInDirectory"
  /\ call.path = <<"/">>
  /\ call.prior # <<>>
  /\ fs[NodeA_A].kind # "none"
  /\ Returned(0, "OK")
  /\ Len(out) = 3

\* the pairs of the user elements among children, in order
IsUser(k) == k.name = "user"

RECURSIVE PairsOf(_)
PairsOf(users) ==
  IF users = <<>> THEN <<>>
  ELSE <<<<Head(users).username, Head(users).password>>>> \o PairsOf(Tail(users))

Complete(k) == k.username # NoAttr /\ k.password # NoAttr

\* C8 as stated: on every well-formed document whose root is tomcat-users,
\* parseTomcatUserConfig returns (0, "OK") and appends exactly one pair per
\* user child, in document order, duplicates kept, other children skipped.
C8_EveryWellFormedDocument ==
  ( /\ call.op = "parseTomcatUserConfig"
    /\ xml_well_formed(call.content)
    /\ xml_root(call.content) = "tomcat-users" )
  => /\ Returned(0, "OK")
     /\ out = call.prior \o PairsOf(SelectSeq(xml_children(call.content), IsUser))

\* C8 amended: on a well-formed document whose tomcat-users element has
\* children k1..kn, every user child carrying username and password,
\* parseTomcatUserConfig returns (0, "OK") and appends to the credentials
\* passed in exactly one pair per user child, in document order, duplicates
\* kept, other children skipped.
C8_OnePairPerUser ==
  ( /\ call.op = "parseTomcatUserConfig"
    /\ xml_well_formed(call.content)
    /\ xml_root(call.content) = "tomcat-users"
    /\ \A k \in Range(xml_children(call.content)) : IsUser(k) => Complete(k) )
  => /\ Returned(0, "OK")
     /\ out = call.prior \o PairsOf(SelectSeq(xml_children(call.content), IsUser))

\* a role child is skipped and the same user twice yields the pair twice
C8_Witness ==
  /\ call.op = "parseTomcatUserConfig"
  /\ call.content = <<OpenTok, UserTok("alice", "secret1"), RoleTok,
                      UserTok("alice", "secret1"), CloseTok>>
  /\ call.prior # <<>>
  /\ Returned(0, "OK")
  /\ Len(out) = 3

\* C9: writeTextFile returns "Could not create file" exactly when open failed
\* (a descriptor of 0 is a successful open), else "Failed to change permissions"
\* exactly when the mode change failed, else "Failed to write contents" exactly
\* when the byte count differs from the content length, else (0, "OK"); the mode
\* change is attempted whenever open succeeded, whatever force_permissions is.
C9_OutcomeMapping ==
  call.op = "writeTextFile" =>
    IF ev.fd < 0 THEN Returned(1, "Could not create file")
    ELSE IF ev.chmod # "ok" THEN ev.chmod = "failed" /\ Returned(1, "Failed to change permissions")
    ELSE IF ev.bytes # Len(call.content) THEN Returned(1, "Failed to write contents")
    ELSE Returned(0, "OK")

\* C10: on every path on which pathExists fails, isReadable, isWritable and
\* readFile return pathExists's Status without probing permissions or opening
\* the file; parseTomcatUserConfigFromDisk returns readFile's failure without
\* calling the XML parser; the output argument is left as it was.
C10_FailurePropagation ==
  LET pe == pathExists(fs, call.path)
      failed == pe \in {Status(1, "-1"), Status(1, "0")}
      reads == {readFile(fs, fds, call.path, <<>>, t).ret : t \in Tells}
  IN /\ (call.op \in {"isReadable", "isWritable", "readFile"} /\ failed) =>
           /\ ret = pe
           /\ ev.probes = 0 /\ ev.opens = 0
           /\ out = call.prior
     /\ (call.op = "parseTomcatUserConfigFromDisk" /\ failed) =>
           ret = pe /\ ev.opens = 0
     /\ (call.op = "parseTomcatUserConfigFromDisk" /\ \A r \in reads : ~ok(r)) =>
           /\ ret \in reads
           /\ ~ev.parsed
           /\ out = call.prior

\* a missing file is asked for with credentials already in the list
C10_Witness ==
  /\ call.op = "parseTomcatUserConfigFromDisk"
  /\ call.path = <<"/", "a">>
  /\ fs[NodeA].kind = "none"
  /\ call.prior # <<>>
  /\ Returned(1, "0")
  /\ out = call.prior

====
